---- MODULE Spec2Model ----
(***************************************************************************)
(* celery_progress/backend.py: the progress recorder (set_progress), the   *)
(* progress reader (get_info) and the job record they share.               *)
(*                                                                         *)
(* Python values are modelled as follows.                                  *)
(*   int arguments (current, total)  [mant, exp2], the integer mant*2^exp2 *)
(*   float                           an IEEE 754 binary64 value (F...)     *)
(*   computed int (int(x))           a TLA+ integer                        *)
(*   a field that may hold None      None or Some(v)                       *)
(*   str                             a sequence of one-character strings   *)
(***************************************************************************)
EXTENDS Integers, Sequences, FiniteSets, TLC

(***************************************************************************)
(* Naturals of unbounded size: sequences of limbs in base 2^13, least      *)
(* significant limb first, without a most significant zero limb.  They     *)
(* carry the significands of the binary64 arithmetic below.                *)
(***************************************************************************)
Limb == 2^13

Max(S) == CHOOSE x \in S : \A y \in S : y <= x

Min(S) == CHOOSE x \in S : \A y \in S : x <= y

RECURSIVE NTrim(_)
NTrim(a) ==
    IF a = <<>> THEN a
    ELSE IF a[Len(a)] = 0 THEN NTrim(SubSeq(a, 1, Len(a) - 1)) ELSE a

RECURSIVE NFromInt(_)
NFromInt(n) == IF n = 0 THEN <<>> ELSE <<n % Limb>> \o NFromInt(n \div Limb)

RECURSIVE NToInt(_)
NToInt(a) == IF a = <<>> THEN 0 ELSE a[1] + Limb * NToInt(Tail(a))

NLimb(a, i) == IF i >= 1 /\ i <= Len(a) THEN a[i] ELSE 0

\* -1, 0 or 1 as a < b, a = b or a > b
NCmp(a, b) ==
    IF Len(a) # Len(b) THEN (IF Len(a) < Len(b) THEN -1 ELSE 1)
    ELSE LET D == {i \in 1..Len(a) : a[i] # b[i]}
         IN IF D = {} THEN 0
            ELSE IF a[Max(D)] < b[Max(D)] THEN -1 ELSE 1

RECURSIVE NCarryFrom(_, _, _)
NCarryFrom(cols, i, c) ==
    IF i > Len(cols) THEN NFromInt(c)
    ELSE LET s == cols[i] + c
         IN <<s % Limb>> \o NCarryFrom(cols, i + 1, s \div Limb)

NAdd(a, b) ==
    NCarryFrom([i \in 1..Max({Len(a), Len(b)}) |-> NLimb(a, i) + NLimb(b, i)], 1, 0)

RECURSIVE NSubFrom(_, _, _, _)
NSubFrom(a, b, i, borrow) ==
    IF i > Len(a) THEN <<>>
    ELSE LET d == a[i] - NLimb(b, i) - borrow
         IN <<(d + Limb) % Limb>> \o NSubFrom(a, b, i + 1, IF d < 0 THEN 1 ELSE 0)

\* a - b, for a >= b
NSub(a, b) == NTrim(NSubFrom(a, b, 1, 0))

RECURSIVE NColFrom(_, _, _, _)
NColFrom(a, b, k, i) ==
    IF i > Len(a) \/ i > k THEN 0
    ELSE a[i] * NLimb(b, k + 1 - i) + NColFrom(a, b, k, i + 1)

NMul(a, b) ==
    IF a = <<>> \/ b = <<>> THEN <<>>
    ELSE NTrim(NCarryFrom([k \in 1..(Len(a) + Len(b) - 1) |-> NColFrom(a, b, k, 1)], 1, 0))

\* 2^k
NPow2(k) == [i \in 1..(k \div 13 + 1) |-> IF i = k \div 13 + 1 THEN 2^(k % 13) ELSE 0]

\* a * 2^k
NShl(a, k) == NMul(a, NPow2(k))

\* a \div 2^k
NShr(a, k) ==
    LET q == k \div 13
        r == k % 13
    IN IF q >= Len(a) THEN <<>>
       ELSE NTrim([i \in 1..(Len(a) - q) |->
                     (a[i + q] \div 2^r) + (NLimb(a, i + q + 1) % 2^r) * 2^(13 - r)])

\* bit k of a (bit 0 is the least significant)
NBit(a, k) == (NLimb(a, k \div 13 + 1) \div 2^(k % 13)) % 2

\* whether a % 2^k # 0
NLowNonzero(a, k) ==
    \E i \in 1..Len(a) :
        \/ i <= k \div 13 /\ a[i] # 0
        \/ i = k \div 13 + 1 /\ a[i] % 2^(k % 13) # 0

NBitLen(a) ==
    IF a = <<>> THEN 0
    ELSE 13 * (Len(a) - 1) + (CHOOSE n \in 1..13 : 2^(n - 1) <= a[Len(a)] /\ a[Len(a)] < 2^n)

\* 2 * a + bit
NDbl(a, bit) ==
    IF a = <<>> THEN (IF bit = 1 THEN <<1>> ELSE <<>>)
    ELSE [i \in 1..Len(a) |-> ((2 * a[i]) % Limb)
                               + (IF i = 1 THEN bit ELSE a[i - 1] \div (Limb \div 2))]
         \o (IF a[Len(a)] >= Limb \div 2 THEN <<1>> ELSE <<>>)

\* One step of binary long division by d: the next bit of the dividend comes in.
NDivStep(s, bit, d) ==
    LET r == NDbl(s.r, bit)
    IN IF NCmp(r, d) >= 0 THEN [q |-> NDbl(s.q, 1), r |-> NSub(r, d)]
       ELSE [q |-> NDbl(s.q, 0), r |-> r]

\* Long division over bits hi down to lo of the dividend a * 2^k, from the state s
\* the bits above hi left.  (The state after the upper half is bound through a
\* one-element set, so that it is computed once, before the lower half starts.)
RECURSIVE NDivBits(_, _, _, _, _, _)
NDivBits(a, k, d, hi, lo, s) ==
    IF hi < lo THEN s
    ELSE IF hi = lo THEN NDivStep(s, IF hi >= k THEN NBit(a, hi - k) ELSE 0, d)
    ELSE LET mid == (hi + lo) \div 2
         IN CHOOSE r \in {NDivBits(a, k, d, mid, lo, up) :
                             up \in {NDivBits(a, k, d, hi, mid + 1, s)}} : TRUE

\* [q, r]: quotient and remainder of a * 2^k by d, d # 0
NDivMod(a, k, d) == NDivBits(a, k, d, NBitLen(a) + k - 1, 0, [q |-> <<>>, r |-> <<>>])

(***************************************************************************)
(* Python's float: IEEE 754 binary64, round to nearest, ties to even.      *)
(* A finite value is (-1)^s * m * 2^e with m < 2^53 and e >= -1074; zero   *)
(* is FZero (the sign of a zero is not kept: nothing here reads it).       *)
(***************************************************************************)
FZero == [k |-> "fin", s |-> 0, m |-> <<>>, e |-> 0]

FInf(s) == [k |-> "inf", s |-> s]

FNaN == [k |-> "nan"]

FIsZero(x) == x.k = "fin" /\ x.m = <<>>

\* A Python call's outcome: the value it returns or the exception it raises.
Ok(v) == [exc |-> "none", val |-> v]

Raise(e) == [exc |-> e]

FPack(s, m, e) ==
    IF m = <<>> THEN FZero
    ELSE LET m1 == IF NBitLen(m) = 54 THEN NShr(m, 1) ELSE m
             e1 == IF NBitLen(m) = 54 THEN e + 1 ELSE e
         IN IF e1 + NBitLen(m1) > 1024 THEN FInf(s)
            ELSE [k |-> "fin", s |-> s, m |-> m1, e |-> e1]

\* The binary64 nearest to (-1)^s * (m + f) * 2^e, where 0 < f < 1 when sticky
\* and f = 0 otherwise (sticky only with m of 55 bits or more).
FRound(s, m, e, sticky) ==
    IF m = <<>> THEN FZero
    ELSE LET e1 == Max({e + NBitLen(m) - 53, -1074})
             drop == e1 - e
         IN IF drop <= 0 THEN FPack(s, NShl(m, -drop), e1)
            ELSE LET kept == NShr(m, drop)
                     half == NBit(m, drop - 1)
                     rest == sticky \/ NLowNonzero(m, drop - 1)
                     up == half = 1 /\ (rest \/ NBit(kept, 0) = 1)
                 IN FPack(s, IF up THEN NAdd(kept, <<1>>) ELSE kept, e1)

\* float(n) for a machine-sized n
FFromInt(n) ==
    IF n >= 0 THEN FRound(0, NFromInt(n), 0, FALSE) ELSE FRound(1, NFromInt(-n), 0, FALSE)

\* The binary64 nearest to (-1)^s * (a / d) * 2^e, for naturals a, d # 0
FDivRound(s, a, d, e) ==
    LET k == Max({0, 55 + NBitLen(d) - NBitLen(a)})
        qr == NDivMod(a, k, d)
    IN FRound(s, qr.q, e - k, qr.r # <<>>)

FNeg(x) == IF x.k = "nan" \/ FIsZero(x) THEN x ELSE [x EXCEPT !.s = 1 - @]

\* x * y
FMul(x, y) ==
    IF x.k = "nan" \/ y.k = "nan" THEN FNaN
    ELSE IF x.k = "inf" \/ y.k = "inf"
         THEN (IF FIsZero(x) \/ FIsZero(y) THEN FNaN ELSE FInf((x.s + y.s) % 2))
    ELSE FRound((x.s + y.s) % 2, NMul(x.m, y.m), x.e + y.e, FALSE)

\* x + y.  An operand more than 128 binary places below the other one is less
\* than a quarter of its last place and leaves it unchanged.
FAdd(x, y) ==
    IF x.k = "nan" \/ y.k = "nan" THEN FNaN
    ELSE IF x.k = "inf" THEN (IF y.k = "inf" /\ y.s # x.s THEN FNaN ELSE x)
    ELSE IF y.k = "inf" THEN y
    ELSE IF FIsZero(x) THEN y
    ELSE IF FIsZero(y) THEN x
    ELSE IF x.e - y.e > 128 THEN x
    ELSE IF y.e - x.e > 128 THEN y
    ELSE LET e == Min({x.e, y.e})
             X == NShl(x.m, x.e - e)
             Y == NShl(y.m, y.e - e)
         IN IF x.s = y.s THEN FRound(x.s, NAdd(X, Y), e, FALSE)
            ELSE IF NCmp(X, Y) >= 0 THEN FRound(x.s, NSub(X, Y), e, FALSE)
            ELSE FRound(y.s, NSub(Y, X), e, FALSE)

\* x - y
FSub(x, y) == FAdd(x, FNeg(y))

\* x / y: float.__truediv__ raises on a zero divisor before anything else
FDiv(x, y) ==
    IF FIsZero(y) THEN Raise("ZeroDivisionError")
    ELSE IF x.k = "nan" \/ y.k = "nan" THEN Ok(FNaN)
    ELSE IF x.k = "inf" THEN Ok(IF y.k = "inf" THEN FNaN ELSE FInf((x.s + y.s) % 2))
    ELSE IF y.k = "inf" \/ FIsZero(x) THEN Ok(FZero)
    ELSE Ok(FDivRound((x.s + y.s) % 2, x.m, y.m, x.e - y.e))

\* int(x): truncation toward zero
FTrunc(x) ==
    IF x.k = "nan" THEN Raise("ValueError")
    ELSE IF x.k = "inf" THEN Raise("OverflowError")
    ELSE LET n == NToInt(IF x.e >= 0 THEN NShl(x.m, x.e) ELSE NShr(x.m, -x.e))
         IN Ok(IF x.s = 1 THEN -n ELSE n)

\* round(x, 2): the exact value of x rounded to a whole number n of hundredths,
\* ties to even, then the binary64 nearest to n / 100.  A value that is not
\* finite, or with e >= 0 (a whole number), is returned as it is.
FRound2(x) ==
    IF x.k # "fin" \/ x.e >= 0 THEN x
    ELSE LET h == NMul(x.m, NFromInt(100))
             kept == NShr(h, -x.e)
             half == NBit(h, -x.e - 1)
             rest == NLowNonzero(h, -x.e - 1)
             up == half = 1 /\ (rest \/ NBit(kept, 0) = 1)
             n == IF up THEN NAdd(kept, <<1>>) ELSE kept
         IN IF n = <<>> THEN FZero ELSE FDivRound(x.s, n, NFromInt(100), 0)

(***************************************************************************)
(* Python's int arguments: [mant, exp2] is the integer mant * 2^exp2, so   *)
(* that integers beyond the range of binary64 can be passed.               *)
(***************************************************************************)
PyInt(mant, exp2) == [mant |-> mant, exp2 |-> exp2]

I(n) == PyInt(n, 0)

IsZero(n) == n.mant = 0

\* a / b for ints: the correctly rounded quotient (long_true_divide)
TrueDiv(a, b) ==
    IF IsZero(b) THEN Raise("ZeroDivisionError")
    ELSE IF IsZero(a) THEN Ok(FZero)
    ELSE LET q == FDivRound(0, NFromInt(a.mant), NFromInt(b.mant), a.exp2 - b.exp2)
         IN IF q.k = "inf" THEN Raise("OverflowError") ELSE Ok(q)

None == <<>>

Some(v) == <<v>>

(***************************************************************************)
(* ProgressRecorder                                                        *)
(***************************************************************************)
PROGRESS_STATE == "PROGRESS"

_percent_float(current, total) ==
    IF IsZero(current) \/ IsZero(total) THEN Ok(FZero)
    ELSE LET q == TrueDiv(current, total)
         IN IF q.exc # "none" THEN q
            ELSE LET percent == FRound2(FMul(q.val, FFromInt(100)))
                 IN Ok(IF FIsZero(percent) /\ current.mant > 0 THEN FFromInt(1) ELSE percent)

\* _percent_int without its last line's floor to 1
_percent_int_unfloored(current, total) ==
    IF IsZero(current) \/ IsZero(total) THEN Ok(0)
    ELSE LET q == TrueDiv(current, total)
         IN IF q.exc # "none" THEN q ELSE FTrunc(FMul(q.val, FFromInt(100)))

\* _percent_int dividing total by current
_percent_int_inverted(current, total) ==
    IF IsZero(current) \/ IsZero(total) THEN Ok(0)
    ELSE LET q == TrueDiv(total, current)
         IN IF q.exc # "none" THEN q
            ELSE LET percent == FTrunc(FMul(q.val, FFromInt(100)))
                 IN IF percent.exc # "none" THEN percent
                    ELSE Ok(IF percent.val = 0 /\ current.mant > 0 THEN 1 ELSE percent.val)

_percent_int(current, total) ==
    IF IsZero(current) \/ IsZero(total) THEN Ok(0)
    ELSE LET q == TrueDiv(current, total)
         IN IF q.exc # "none" THEN q
            ELSE LET percent == FTrunc(FMul(q.val, FFromInt(100)))
                 IN IF percent.exc # "none" THEN percent
                    ELSE Ok(IF percent.val = 0 /\ current.mant > 0 THEN 1 ELSE percent.val)

\* curr_time is what datetime.datetime.now() returns inside the call
_est_time(current, total, start_time, curr_time) ==
    IF IsZero(current) \/ IsZero(total) THEN Ok(-1)
    ELSE LET diff_s == FFromInt((curr_time - start_time) % (24 * 60 * 60))
             q == TrueDiv(current, total)
         IN IF q.exc # "none" THEN q
            ELSE LET perc == FMul(q.val, FFromInt(100))
                     r == FDiv(FFromInt(100), perc)
                 IN IF r.exc # "none" THEN r
                    ELSE LET time_total_s == FMul(diff_s, r.val)
                         IN FTrunc(FSub(time_total_s, diff_s))

\* ['state', meta], or the exception that ends the call.  backend_up is whether
\* the runtime's update_state succeeds; its failure is not caught here.
set_progress(current, total, description, start_time, curr_time, backend_up) ==
    LET percent == _percent_float(current, total)
        percent_int == _percent_int(current, total)
        est_time_remaining_s == _est_time(current, total, start_time, curr_time)
    IN IF percent.exc # "none" THEN percent
       ELSE IF percent_int.exc # "none" THEN percent_int
       ELSE IF est_time_remaining_s.exc # "none" THEN est_time_remaining_s
       ELSE IF ~backend_up THEN Raise("OperationalError")
       ELSE Ok(<<PROGRESS_STATE,
                 [pending |-> FALSE,
                  current |-> current,
                  total |-> total,
                  percent |-> Some(percent.val),
                  percent_int |-> Some(percent_int.val),
                  description |-> description,
                  start_time |-> Some(start_time),
                  est_time_remaining_s |-> Some(est_time_remaining_s.val)]>>)

(***************************************************************************)
(* Python's str: a sequence of characters.  Values of a job record are     *)
(* tagged: None, a str, an exception with its message, the dict            *)
(* {'rows': n}; a progress document is the record set_progress builds.     *)
(***************************************************************************)
PyNone == [t |-> "None"]

PyStr(chars) == [t |-> "str", s |-> chars]

PyExc(msg) == [t |-> "exc", msg |-> msg]

PyRows(n) == [t |-> "dict", rows |-> n]

Digits == <<"0", "1", "2", "3", "4", "5", "6", "7", "8", "9">>

IsDigit(c) == \E d \in 1..10 : Digits[d] = c

\* int(chars), for a sequence of digits
RECURSIVE IntOfDigits(_)
IntOfDigits(chars) ==
    IF chars = <<>> THEN 0
    ELSE 10 * IntOfDigits(SubSeq(chars, 1, Len(chars) - 1))
         + (CHOOSE d \in 0..9 : Digits[d + 1] = chars[Len(chars)])

\* str(n), for n >= 0
RECURSIVE StrOfInt(_)
StrOfInt(n) ==
    IF n < 10 THEN <<Digits[n + 1]>> ELSE StrOfInt(n \div 10) \o <<Digits[(n % 10) + 1]>>

\* The characters of a state tag that is formatted into a message.
Chars(state) ==
    CASE state = "RECEIVED" -> <<"R", "E", "C", "E", "I", "V", "E", "D">>

\* str(v)
Str(v) ==
    CASE v.t = "None" -> <<"N", "o", "n", "e">>
      [] v.t = "str" -> v.s
      [] v.t = "exc" -> v.msg
      [] v.t = "dict" -> <<"{", "'", "r", "o", "w", "s", "'", ":", " ">> \o StrOfInt(v.rows) \o <<"}">>

\* re.search("Retry in \d{1,10}s", text).group(), or None: the leftmost place
\* where "Retry in " is followed by one to ten digits and then "s".
re_search(text) ==
    LET RunAt(i) == {n \in 1..10 : /\ i + 9 + n <= Len(text)
                                   /\ \A j \in (i + 9)..(i + 8 + n) : IsDigit(text[j])
                                   /\ text[i + 9 + n] = "s"}
        At == {i \in 1..Len(text) : /\ i + 8 <= Len(text)
                                    /\ SubSeq(text, i, i + 8) = <<"R", "e", "t", "r", "y", " ", "i", "n", " ">>
                                    /\ RunAt(i) # {}}
    IN IF At = {} THEN None
       ELSE Some(SubSeq(text, Min(At), Min(At) + 9 + Max(RunAt(Min(At)))))

(***************************************************************************)
(* Progress                                                                *)
(***************************************************************************)
\* _get_completed_progress with the counts of a job that has not begun
_get_completed_progress_at_zero ==
    [pending |-> FALSE,
     current |-> I(0),
     total |-> I(100),
     percent |-> Some(FFromInt(0)),
     percent_int |-> Some(0),
     start_time |-> None,
     est_time_remaining_s |-> Some(0)]

_get_completed_progress ==
    [pending |-> FALSE,
     current |-> I(100),
     total |-> I(100),
     percent |-> Some(FFromInt(100)),
     percent_int |-> Some(100),
     start_time |-> None,
     est_time_remaining_s |-> Some(0)]

_get_unknown_progress(state) ==
    [pending |-> FALSE,
     current |-> I(0),
     total |-> I(100),
     percent |-> None,
     percent_int |-> None,
     start_time |-> None,
     est_time_remaining_s |-> None]

\* _get_pending_progress with pending left False
_get_pending_progress_not_pending(state) ==
    [pending |-> FALSE,
     current |-> I(0),
     total |-> I(100),
     percent |-> Some(FFromInt(-1)),
     percent_int |-> Some(-1),
     start_time |-> None,
     est_time_remaining_s |-> Some(-1)]

_get_pending_progress(state) ==
    [pending |-> TRUE,
     current |-> I(0),
     total |-> I(100),
     percent |-> Some(FFromInt(-1)),
     percent_int |-> Some(-1),
     start_time |-> None,
     est_time_remaining_s |-> Some(-1)]

\* The RETRY branch's result; re.search raises TypeError on a traceback that is
\* no str.
retry_result(task_meta) ==
    LET traceback == task_meta.traceback
    IN IF traceback.t # "str" THEN Raise("TypeError")
       ELSE LET seconds_re == re_search(traceback.s)
                group == seconds_re[1]
                next_retry_seconds ==
                    IF seconds_re # None
                    THEN [t |-> "int", v |-> IntOfDigits(SubSeq(group, 10, Len(group) - 1))]
                    ELSE PyStr(<<"U", "n", "k", "n", "o", "w", "n">>)
                text == Str(task_meta.result)
            IN Ok([t |-> "dict",
                   next_retry_seconds |-> next_retry_seconds,
                   message |-> PyStr(SubSeq(text, 1, Min({50, Len(text)})) \o <<".", ".", ".">>)])

\* get_info without its first test
result_is_None_skipped(task_meta) == FALSE

\* self.result.result is None
result_is_None(task_meta) == task_meta.result = PyNone

\* task_meta is what self.result._get_task_meta() returns, and self.result.result,
\* successful() and get() read the same record: its result, whether its status
\* is SUCCESS, and its result again.
get_info(task_meta) ==
    LET state == task_meta.status
        info == task_meta.result
    IN IF result_is_None(task_meta)
       THEN Ok([state |-> state,
                complete |-> TRUE,
                success |-> None,
                progress |-> _get_unknown_progress(state)])
       ELSE IF state \in {"SUCCESS", "FAILURE"}
       THEN LET success == state = "SUCCESS"
            IN Ok([state |-> state,
                   complete |-> TRUE,
                   success |-> Some(success),
                   progress |-> _get_completed_progress,
                   result |-> IF success THEN info ELSE PyStr(Str(info))])
       ELSE IF state \in {"RETRY", "REVOKED"}
       THEN LET result == IF state = "RETRY" THEN retry_result(task_meta)
                          ELSE Ok(PyStr(<<"T", "a", "s", "k", " ">> \o Str(info)))
            IN IF result.exc # "none" THEN result
               ELSE Ok([state |-> state,
                        complete |-> TRUE,
                        success |-> Some(FALSE),
                        progress |-> _get_completed_progress,
                        result |-> result.val])
       ELSE IF state = "IGNORED"
       THEN Ok([state |-> state,
                complete |-> TRUE,
                success |-> None,
                progress |-> _get_completed_progress,
                result |-> PyStr(Str(info))])
       ELSE IF state = PROGRESS_STATE
       THEN Ok([state |-> state,
                complete |-> FALSE,
                success |-> None,
                progress |-> info])
       ELSE IF state \in {"PENDING", "STARTED"}
       THEN Ok([state |-> state,
                complete |-> FALSE,
                success |-> None,
                progress |-> _get_pending_progress(state)])
       ELSE Ok([state |-> state,
                complete |-> TRUE,
                success |-> Some(FALSE),
                progress |-> _get_unknown_progress(state),
                result |-> PyStr(<<"U", "n", "k", "n", "o", "w", "n", " ", "s", "t", "a", "t", "e", " ">> \o Chars(state))])

(***************************************************************************)
(* The state machine: one job record of the task runtime, the recorder of  *)
(* the running job and a reader polling the record.                        *)
(***************************************************************************)
MaxCurrent == 3

MaxTotal == 3

MaxClock == 2

\* The arguments set_progress is called with: small counts, and the counts at
\* which binary64 rounding, the two-decimal rounding and the range of binary64
\* come into play.
Currents == {I(n) : n \in 0..MaxCurrent} \cup {I(29)}

Totals == {I(n) : n \in 0..MaxTotal} \cup {I(50), I(20001), PyInt(1, 1075)}

\* What a KnownResult is built with.  RECEIVED is a state of the runtime that
\* get_info does not name.
States ==
    {"PENDING", "STARTED", "PROGRESS", "RETRY", "REVOKED", "SUCCESS", "FAILURE",
     "IGNORED", "RECEIVED"}

RetValues == {PyNone, PyRows(42), PyExc(<<"b", "o", "o", "m">>)}

Tracebacks == {PyNone, PyStr(<<"b", "o", "o", "m">>), PyStr(<<"R", "e", "t", "r", "y", " ", "i", "n", " ", "3", "0", "s">>)}

VARIABLES
    job,              \* the job record: [status, result, traceback]
    now,              \* the clock, in seconds
    self_start_time,  \* ProgressRecorder.start_time
    ret,              \* the outcome of the latest set_progress call on the record
    prev,             \* what the set_progress call before it reported, if it returned
    response,         \* the outcome of the latest get_info call
    last              \* the latest call

vars == <<job, now, self_start_time, ret, prev, response, last>>

NoCall == [exc |-> "no call"]

\* set_progress on the arguments enumerated, computed once
SetProgressOf ==
    [c \in Currents, t \in Totals, s \in {0}, n \in 0..MaxClock |->
        set_progress(c, t, "", s, n, TRUE)]

\* update_state writing the state and leaving the stored result as it was
update_state_without_meta(record, state, meta) == [record EXCEPT !.status = state]

\* self.task.update_state(state=state, meta=meta): the record after the write
update_state(record, state, meta) ==
    [status |-> state, result |-> meta, traceback |-> PyNone]

Reported(r) ==
    [current |-> r.val[2].current,
     total |-> r.val[2].total,
     percent |-> r.val[2].percent[1],
     percent_int |-> r.val[2].percent_int[1]]

\* ProgressRecorder(task) at time 0 on a job the runtime has just received
Init ==
    /\ job = [status |-> "PENDING", result |-> PyNone, traceback |-> PyNone]
    /\ now = 0
    /\ self_start_time = 0
    /\ ret = NoCall
    /\ prev = NoCall
    /\ response = NoCall
    /\ last = "ProgressRecorder"

\* ProgressRecorder.set_progress: update_state writes the state and the
\* document into the job record, unless an exception ended the call before.
SetProgress(current, total) ==
    \E r \in {SetProgressOf[current, total, self_start_time, now]} :
       /\ ret' = r
       /\ prev' = IF ret.exc = "none" THEN Reported(ret) ELSE NoCall
       /\ job' = IF r.exc = "none" THEN update_state(job, r.val[1], r.val[2]) ELSE job
       /\ response' = NoCall
       /\ last' = "set_progress"
       /\ UNCHANGED <<now, self_start_time>>

\* KnownResult(id, ret_value, state, traceback): the record of another job
KnownResultInit(ret_value, state, traceback) ==
    /\ job' = [status |-> state, result |-> ret_value, traceback |-> traceback]
    /\ ret' = NoCall
    /\ prev' = NoCall
    /\ response' = NoCall
    /\ last' = "KnownResult"
    /\ UNCHANGED <<now, self_start_time>>

\* Progress(result).get_info()
GetInfo ==
    /\ response' = get_info(job)
    /\ last' = "get_info"
    /\ UNCHANGED <<job, now, self_start_time, ret, prev>>

Tick ==
    /\ now < MaxClock
    /\ now' = now + 1
    /\ UNCHANGED <<job, self_start_time, ret, prev, response, last>>

Next ==
    \/ \E current \in Currents, total \in Totals : SetProgress(current, total)
    \/ \E ret_value \in RetValues, state \in States, traceback \in Tracebacks :
           KnownResultInit(ret_value, state, traceback)
    \/ GetInfo
    \/ Tick

Spec == Init /\ [][Next]_vars

(***************************************************************************)
(* Properties.  A set_progress outcome that returned is Ok(<<state, meta>>);*)
(* a get_info outcome that returned is Ok(response).                       *)
(***************************************************************************)
KnownStates ==
    {"PENDING", "STARTED", "PROGRESS", "RETRY", "REVOKED", "SUCCESS", "FAILURE", "IGNORED"}

\* The three documents as the specification writes them out
CompletedDoc ==
    [pending |-> FALSE, current |-> I(100), total |-> I(100),
     percent |-> Some(FFromInt(100)), percent_int |-> Some(100),
     start_time |-> None, est_time_remaining_s |-> Some(0)]

UnknownDoc ==
    [pending |-> FALSE, current |-> I(0), total |-> I(100),
     percent |-> None, percent_int |-> None,
     start_time |-> None, est_time_remaining_s |-> None]

PendingDoc ==
    [pending |-> TRUE, current |-> I(0), total |-> I(100),
     percent |-> Some(FFromInt(-1)), percent_int |-> Some(-1),
     start_time |-> None, est_time_remaining_s |-> Some(-1)]

\* x < y, for finite x and y
FLt(x, y) == FSub(x, y).m # <<>> /\ FSub(x, y).s = 1

\* x <= y, for finite x and y
FLe(x, y) == ~FLt(y, x)

\* The document of the latest set_progress call, when it returned
Meta == ret.val[2]

\* C1: get_info is total: whatever the state, the result payload and the
\* traceback of the record, the call returns a response with the keys state,
\* complete, success and progress; for a state it does not name (and a payload
\* that is present, the absent payload being answered before the state is
\* looked at) the response is complete, not successful, carries the unknown
\* document and the result "Unknown state <state>".
C1_GetInfoTotal ==
    last = "get_info" =>
        /\ response.exc = "none"
        /\ {"state", "complete", "success", "progress"} \subseteq DOMAIN response.val
        /\ response.val.state = job.status
        /\ (job.status \notin KnownStates /\ job.result # PyNone) =>
               response.val =
                   [state |-> job.status,
                    complete |-> TRUE,
                    success |-> Some(FALSE),
                    progress |-> UnknownDoc,
                    result |-> PyStr(<<"U", "n", "k", "n", "o", "w", "n", " ", "s", "t", "a", "t", "e", " ">>
                                     \o Chars(job.status))]

\* C2 as stated: a job in state PENDING or STARTED is reported as not complete,
\* success null, with the pending document and no result field.
C2_PendingAlways ==
    (last = "get_info" /\ job.status \in {"PENDING", "STARTED"}) =>
        response = Ok([state |-> job.status,
                       complete |-> FALSE,
                       success |-> None,
                       progress |-> PendingDoc])

\* C2 amended: a job in state PENDING or STARTED whose result payload is not
\* null is reported as not complete, success null, with the pending document
\* and no result field.
C2_PendingWithPayload ==
    (last = "get_info" /\ job.status \in {"PENDING", "STARTED"} /\ job.result # PyNone) =>
        response = Ok([state |-> job.status,
                       complete |-> FALSE,
                       success |-> None,
                       progress |-> PendingDoc])

C2_Witness ==
    /\ last = "get_info"
    /\ job.status = "STARTED"
    /\ job.result = PyRows(42)
    /\ response.exc = "none"
    /\ response.val.progress.pending

\* C3: whenever the result payload is null, get_info answers complete, success
\* null, the unknown document and no result field, whatever the state is.
C3_AbsenceFirst ==
    (last = "get_info" /\ job.result = PyNone) =>
        response = Ok([state |-> job.status,
                       complete |-> TRUE,
                       success |-> None,
                       progress |-> UnknownDoc])

C3_Witness ==
    /\ last = "get_info"
    /\ job.result = PyNone
    /\ job.status = "SUCCESS"
    /\ response.exc = "none"
    /\ response.val.complete

\* C4: when the latest write to the job record is a set_progress call that
\* returned, get_info answers state PROGRESS, not complete, success null, and a
\* progress field equal to the document that call returned.
C4_RoundTrip ==
    (last = "get_info" /\ ret.exc = "none") =>
        response = Ok([state |-> "PROGRESS",
                       complete |-> FALSE,
                       success |-> None,
                       progress |-> Meta])

C4_Witness ==
    /\ last = "get_info"
    /\ ret.exc = "none"
    /\ Meta.current = I(29)
    /\ Meta.total = I(50)
    /\ response.exc = "none"
    /\ response.val.progress.percent_int = Some(57)

\* C5 as stated: a job in state SUCCESS or FAILURE is reported complete with
\* the completed document, success true and the return value as result when
\* it succeeded, success false and the stringified error as result when it
\* failed.
C5_FinishedAlways ==
    (last = "get_info" /\ job.status \in {"SUCCESS", "FAILURE"}) =>
        response = Ok([state |-> job.status,
                       complete |-> TRUE,
                       success |-> Some(job.status = "SUCCESS"),
                       progress |-> CompletedDoc,
                       result |-> IF job.status = "SUCCESS" THEN job.result
                                  ELSE PyStr(Str(job.result))])

\* C5 amended: a job in state SUCCESS or FAILURE whose result payload is not
\* null is reported complete with the completed document, success true and the
\* return value as result when it succeeded, success false and the stringified
\* error as result when it failed.
C5_FinishedWithPayload ==
    (last = "get_info" /\ job.status \in {"SUCCESS", "FAILURE"} /\ job.result # PyNone) =>
        response = Ok([state |-> job.status,
                       complete |-> TRUE,
                       success |-> Some(job.status = "SUCCESS"),
                       progress |-> CompletedDoc,
                       result |-> IF job.status = "SUCCESS" THEN job.result
                                  ELSE PyStr(Str(job.result))])

C5_Witness ==
    /\ last = "get_info"
    /\ job.status = "FAILURE"
    /\ job.result = PyExc(<<"b", "o", "o", "m">>)
    /\ response.exc = "none"
    /\ response.val.success = Some(FALSE)
    /\ response.val.result = PyStr(<<"b", "o", "o", "m">>)

\* C6: for 0 < current < total the reported percent_int is the exact
\* floor(current / total * 100), or 1 when that floor is 0.
C6_ExactFloor ==
    (/\ ret.exc = "none"
     /\ Meta.current.exp2 = 0
     /\ Meta.total.exp2 = 0
     /\ 0 < Meta.current.mant
     /\ Meta.current.mant < Meta.total.mant) =>
        LET floor == (100 * Meta.current.mant) \div Meta.total.mant
        IN Meta.percent_int = Some(IF floor = 0 THEN 1 ELSE floor)

\* C7 as stated: a set_progress call with current > 0 never reports zero:
\* percent_int is at least 1 and percent is not 0.0.
C7_NeverZero ==
    (ret.exc = "none" /\ Meta.current.mant > 0) =>
        /\ Meta.percent_int[1] >= 1
        /\ ~FIsZero(Meta.percent[1])

\* C7 amended: a set_progress call with current > 0 and total > 0 that returns
\* never reports zero: percent_int is at least 1 and percent is not 0.0.
C7_NeverZeroPositiveTotal ==
    (ret.exc = "none" /\ Meta.current.mant > 0 /\ Meta.total.mant > 0) =>
        /\ Meta.percent_int[1] >= 1
        /\ ~FIsZero(Meta.percent[1])

C7_Witness ==
    /\ ret.exc = "none"
    /\ Meta.current = I(1)
    /\ Meta.total = I(20001)
    /\ Meta.percent_int = Some(1)
    /\ Meta.percent = Some(FFromInt(1))

\* C8: with current = 0 or total = 0 set_progress reports percent 0.0,
\* percent_int 0 and est_time_remaining_s -1, and no set_progress call ends in
\* a division by zero.
C8_NoDivisionByZero ==
    /\ ret.exc # "ZeroDivisionError"
    /\ (ret.exc = "none" /\ (IsZero(Meta.current) \/ IsZero(Meta.total))) =>
           /\ Meta.percent = Some(FZero)
           /\ Meta.percent_int = Some(0)
           /\ Meta.est_time_remaining_s = Some(-1)

\* C9: every document set_progress produces has percent_int in 0..100 and
\* percent in the range 0 to 100.
C9_PercentRange ==
    ret.exc = "none" =>
        /\ Meta.percent_int[1] \in 0..100
        /\ FLe(FZero, Meta.percent[1])
        /\ FLe(Meta.percent[1], FFromInt(100))

\* Two set_progress calls in a row that returned, with the same total > 0 and
\* a current that did not go down
NextCallOfRun ==
    /\ prev # NoCall
    /\ ret.exc = "none"
    /\ Meta.total = prev.total
    /\ Meta.total.mant > 0
    /\ Meta.current.exp2 = prev.current.exp2
    /\ Meta.current.mant >= prev.current.mant

\* Whether the percent of set_progress(current, total) is the 1.0 put in place
\* of a value that rounds to 0.0
FloorRaised(current, total) ==
    /\ current.mant > 0
    /\ total.mant > 0
    /\ TrueDiv(current, total).exc = "none"
    /\ FIsZero(FRound2(FMul(TrueDiv(current, total).val, FFromInt(100))))

\* C10 as stated: with a fixed total > 0 and non-decreasing current, neither
\* percent nor percent_int decreases from one set_progress call to the next.
C10_Monotone ==
    NextCallOfRun =>
        /\ Meta.percent_int[1] >= prev.percent_int
        /\ ~FLt(Meta.percent[1], prev.percent)

\* C10 amended: with a fixed total > 0 and non-decreasing current, percent_int
\* never decreases from one set_progress call to the next, and percent never
\* decreases unless the earlier call's percent is the 1.0 reported in place of
\* a value that rounds to 0.0.
C10_MonotoneButFloor ==
    NextCallOfRun =>
        /\ Meta.percent_int[1] >= prev.percent_int
        /\ (~FloorRaised(prev.current, prev.total) => ~FLt(Meta.percent[1], prev.percent))

C10_Witness ==
    /\ NextCallOfRun
    /\ prev.current = I(1)
    /\ Meta.current = I(2)
    /\ Meta.total = I(3)
    /\ prev.percent_int < Meta.percent_int[1]
    /\ FLt(prev.percent, Meta.percent[1])

====
